---- MODULE Spec2Model ----
(***************************************************************************)
(* Model of contracts/PrivateVoting.sol: the PrivateVoting contract and    *)
(* VotingFactory.  The storage of one PrivateVoting instance is tracked:   *)
(* the first voting that is created.  Spec follows the life of that voting *)
(* (created directly or through the factory); FactorySpec follows the      *)
(* factory's records over several creations, the storage of the votings    *)
(* created after the first one being left out.  Every external             *)
(* call is one atomic action (EVM transaction semantics).  For every       *)
(* function f, fRevert(...) is the reason with which the call reverts in   *)
(* the current state (OK when it does not): the modifiers in their         *)
(* declared order, then the requires of the body.  A call that reverts     *)
(* rolls the storage back, so the action f is enabled only when            *)
(* fRevert(...) = OK.  Ciphertexts (euint32) are modelled by the plaintext *)
(* they encrypt; the gateway is modelled by the set of decryption requests *)
(* that are still to be answered.                                          *)
(***************************************************************************)
EXTENDS Integers, Sequences, FiniteSets, Bags

\* ---------------------------------------------------------------- bounds
NumUsers == 2       \* externally owned accounts 1..NumUsers
MaxTime == 2        \* block.timestamp ranges over 0..MaxTime
MaxList == 2        \* longest address list passed to authorizeVoters
MaxVotings == 2     \* votings created through the factory in FactorySpec
MaxInFlight == 2    \* initializeFHEVM() calls in flight at the same time

\* ------------------------------------------------------ program constants
NotStarted == 0
Active == 1
Ended == 2
ResultsRevealed == 3
MinOptions == 2
MaxOptions == 10

\* ------------------------------------------------------------- addresses
ZeroAddress == 0
Users == 1..NumUsers
FactoryAddress == NumUsers + 1
VotingAddress == NumUsers + 2          \* address of the first voting created
Addresses == 0..(NumUsers + 1)
\* the k-th voting created by the factory gets a fresh address
VotingAddresses == VotingAddress..(VotingAddress + MaxVotings - 1)
AllAddresses == Addresses \cup VotingAddresses
FactoryDeployer == NumUsers            \* the account that deployed the factory
Creators == {1}                       \* accounts that create a voting
VoterArgs == Users \cup {ZeroAddress}  \* addresses passed as voter arguments

Titles == {"", "T"}
Times == 0..MaxTime
\* the start and end times passed to a creation
CreationTimes == {0, 1, 2}
\* the option counts passed to a creation: those up to MinOptions, and the
\* first one above MaxOptions
OptionCounts == (0..MinOptions) \cup {MaxOptions + 1}
\* the values voted: every option of a voting with MinOptions options and
\* the first value out of its range
VoteValues == 0..MinOptions
NoBallot == -1

\* the outcome of a call that does not revert
OK == "ok"

VARIABLES
  now,                 \* block.timestamp
  deployed,            \* the PrivateVoting contract exists
  owner,               \* Ownable._owner of the voting
  votingInfo,          \* VotingInfo struct (options kept as their count)
  encryptedVoteCounts, \* option index -> plaintext of the euint32 counter
  hasVoted,
  authorizedVoters,
  decryptedResults,
  resultsDecrypted,
  pendingRequests,     \* decryption requests issued and not yet answered
  ballots,             \* history: the option each address voted for
  emitted,             \* the observed kinds of events the voting has emitted
  votingContracts,     \* VotingFactory.votingContracts
  creatorToVotings,    \* VotingFactory.creatorToVotings
  isValidVotingContract,
  factoryOwner,        \* Ownable._owner of the factory
  mounted,             \* the React components that are mounted
  config,              \* window.ethereum is defined, votingFactory is set
  wallet,              \* WalletProvider: the WalletState
  provider,            \* WalletProvider: provider is not null
  checkConnectionPending, \* the checkConnection() of the mount is in flight
  balanceFetches,      \* bag of the addresses of the updateBalance() calls
                       \* in flight
  connectCalls,        \* number of connect() calls in flight, by position
  toasts,              \* the toast.error messages shown by the last step
  fhevm,               \* FHEVMProvider: instance, loading, error, calls
  home                 \* HomePage: filter, votings, loading, calls

votingVars == <<deployed, owner, votingInfo, encryptedVoteCounts, hasVoted,
                authorizedVoters, decryptedResults, resultsDecrypted>>
factoryVars == <<votingContracts, creatorToVotings, isValidVotingContract,
                 factoryOwner>>
vars == <<now, deployed, owner, votingInfo, encryptedVoteCounts, hasVoted,
          authorizedVoters, decryptedResults, resultsDecrypted,
          pendingRequests, ballots, emitted, votingContracts,
          creatorToVotings,
          isValidVotingContract, factoryOwner,
          mounted, config, wallet, provider, checkConnectionPending,
          balanceFetches, connectCalls, toasts, fhevm, home>>
walletVars == <<wallet, provider, checkConnectionPending, balanceFetches,
                connectCalls>>
frontendVars == <<mounted, config, wallet, provider, checkConnectionPending,
                  balanceFetches, connectCalls, toasts, fhevm, home>>
chainVars == <<now, deployed, owner, votingInfo, encryptedVoteCounts,
               hasVoted, authorizedVoters, decryptedResults,
               resultsDecrypted, pendingRequests, ballots, emitted,
               votingContracts, creatorToVotings, isValidVotingContract,
               factoryOwner>>

OptionIndices == 0..(MaxOptions - 1)

\* ------------------------------------------------------ frontend state
\* null of the WalletState fields
Null == 0
\* the error codes that the catch block of connect() tells apart
UserRejectedCode == 4001
RequestPendingCode == -32002
\* APP_CONFIG.network.chainId (REACT_APP_CHAIN_ID defaults to 8009) and
\* the chain id of another network of the configuration
ConfiguredChainId == 8009
OtherChainId == 31337
ChainIds == {ConfiguredChainId, OtherChainId}
\* the accounts of the wallet extension
Accounts == Users
\* provider.getBalance(address), formatted: accounts differ in balance
getBalance(address) == 100 + address

VotingFilters == {"all", "active", "ended", "my-votings"}
\* the votings of useState([]): no response displayed yet
NoVotings == <<"[]", Null>>

\* useState initial values of WalletProvider (no wallet connected)
DisconnectedWallet ==
  [isConnected |-> FALSE, address |-> Null, chainId |-> Null,
   balance |-> Null]

\* the deployments of the frontend: window.ethereum is defined or not,
\* CONTRACT_ADDRESSES.votingFactory is set or left to its default ''
Configs == [ethereum : BOOLEAN, votingFactory : BOOLEAN]
\* the configuration without a wallet extension and without environment
DefaultConfig == [ethereum |-> FALSE, votingFactory |-> FALSE]

\* the frontend after the first render and its effects, with the
\* components m mounted under WalletProvider and a configuration of cs:
\* checkConnection() is in flight when window.ethereum is defined, the
\* wallet is not connected, so the effect of FHEVMProvider has set
\* instance to null and loadVotings() has set loading to false
InitFrontend(m, cs) ==
  /\ mounted = m
  /\ config \in cs
  /\ wallet = DisconnectedWallet
  /\ provider = FALSE
  /\ checkConnectionPending = config.ethereum
  /\ balanceFetches = EmptyBag
  /\ connectCalls = [requesting |-> 0, switching |-> 0]
  /\ toasts = <<>>
  /\ fhevm = [instance |-> FALSE, loading |-> FALSE, error |-> FALSE,
              inFlight |-> 0]
  /\ home = [filter |-> "all", votings |-> NoVotings, loading |-> FALSE,
             inFlight |-> EmptyBag]

\* the contracts before any deployment
InitChain ==
  /\ now = 0
  /\ deployed = FALSE
  /\ owner = ZeroAddress
  /\ votingInfo = [title |-> "", options |-> 0, startTime |-> 0, endTime |-> 0,
                   state |-> NotStarted, totalVoters |-> 0,
                   resultsRequested |-> FALSE]
  /\ encryptedVoteCounts = [i \in OptionIndices |-> 0]
  /\ hasVoted = [a \in Addresses |-> FALSE]
  /\ authorizedVoters = [a \in Addresses |-> FALSE]
  /\ decryptedResults = [i \in OptionIndices |-> 0]
  /\ resultsDecrypted = FALSE
  /\ pendingRequests = {}
  /\ ballots = [a \in Addresses |-> NoBallot]
  /\ emitted = {}
  /\ votingContracts = <<>>
  /\ creatorToVotings = [a \in Addresses |-> <<>>]
  /\ isValidVotingContract = [a \in AllAddresses |-> FALSE]
  /\ factoryOwner = FactoryDeployer

\* the contracts before any deployment, with the frontend at its first
\* render (the specifications of the contracts leave it there)
Init ==
  /\ InitChain
  /\ InitFrontend({}, {DefaultConfig})

\* ---------------------------------------------------------------- events
\* the events of PrivateVoting that the specification names; the other
\* events (VoterAuthorized, VoterRevoked, ResultsRequested) are not kept
ObservedEvents == {"VotingCreated", "VoteCast", "VotingEnded", "ResultsRevealed"}

\* emit e: the kinds of observed events emitted so far, after the emit
emit(e) == IF e \in ObservedEvents THEN emitted \cup {e} ELSE emitted

\* ------------------------------------------------------------ block time
Tick ==
  /\ now < MaxTime
  /\ now' = now + 1
  /\ UNCHANGED <<votingVars, pendingRequests, ballots, emitted, factoryVars>>
  /\ UNCHANGED frontendVars

\* one more block, after the largest end time that a creation can choose
TickLate ==
  /\ now = MaxTime
  /\ now' = now + 1
  /\ UNCHANGED <<votingVars, pendingRequests, ballots, emitted, factoryVars>>
  /\ UNCHANGED frontendVars

\* the custom error of Ownable's onlyOwner
Unauthorized == "OwnableUnauthorizedAccount"

\* ------------------------------------------------- PrivateVoting creation
\* mutant: the time range check written with <= instead of <
constructorRevert_Le(nOptions, startTime, endTime) ==
  IF ~(nOptions >= MinOptions) THEN "At least 2 options required"
  ELSE IF ~(nOptions <= MaxOptions) THEN "Maximum 10 options allowed"
  ELSE IF ~(startTime <= endTime) THEN "Invalid time range"
  ELSE IF ~(endTime > now) THEN "End time must be in future"
  ELSE OK

\* the require chain of the PrivateVoting constructor
constructorRevert(nOptions, startTime, endTime) ==
  IF ~(nOptions >= MinOptions) THEN "At least 2 options required"
  ELSE IF ~(nOptions <= MaxOptions) THEN "Maximum 10 options allowed"
  ELSE IF ~(startTime < endTime) THEN "Invalid time range"
  ELSE IF ~(endTime > now) THEN "End time must be in future"
  ELSE OK

\* mutant: the initial state chosen with startTime < block.timestamp
constructor_StartLt(sender, title, nOptions, startTime, endTime) ==
  /\ deployed' = TRUE
  /\ votingInfo' = [title |-> title, options |-> nOptions,
                    startTime |-> startTime, endTime |-> endTime,
                    state |-> IF startTime < now THEN Active ELSE NotStarted,
                    totalVoters |-> 0, resultsRequested |-> FALSE]
  /\ encryptedVoteCounts' = [i \in OptionIndices |-> 0]
  /\ authorizedVoters' = [authorizedVoters EXCEPT ![sender] = TRUE]
  /\ emitted' = emit("VotingCreated")
  /\ UNCHANGED <<hasVoted, decryptedResults, resultsDecrypted>>

\* storage written by the constructor when msg.sender = sender; Ownable's
\* owner is set by the caller of this operator (Ownable(msg.sender), then a
\* possible transferOwnership)
constructor(sender, title, nOptions, startTime, endTime) ==
  /\ deployed' = TRUE
  /\ votingInfo' = [title |-> title, options |-> nOptions,
                    startTime |-> startTime, endTime |-> endTime,
                    state |-> IF startTime <= now THEN Active ELSE NotStarted,
                    totalVoters |-> 0, resultsRequested |-> FALSE]
  /\ encryptedVoteCounts' = [i \in OptionIndices |-> 0]
  /\ authorizedVoters' = [authorizedVoters EXCEPT ![sender] = TRUE]
  /\ emitted' = emit("VotingCreated")
  /\ UNCHANGED <<hasVoted, decryptedResults, resultsDecrypted>>

\* PrivateVoting deployed directly by an externally owned account
deployPrivateVoting(sender, title, nOptions, startTime, endTime) ==
  /\ ~deployed
  /\ constructorRevert(nOptions, startTime, endTime) = OK
  /\ constructor(sender, title, nOptions, startTime, endTime)
  /\ owner' = sender
  /\ UNCHANGED <<now, pendingRequests, ballots, factoryVars>>
  /\ UNCHANGED frontendVars

\* mutant: the factory's own checks, without those of the constructor
createVotingRevert_FactoryOnly(title, nOptions, startTime, endTime) ==
  IF ~(title # "") THEN "Title cannot be empty"
  ELSE IF ~(nOptions >= MinOptions) THEN "At least 2 options required"
  ELSE IF ~(startTime < endTime) THEN "Invalid time range"
  ELSE OK

\* the require chain of VotingFactory.createVoting, then the constructor's
createVotingRevert(title, nOptions, startTime, endTime) ==
  IF ~(title # "") THEN "Title cannot be empty"
  ELSE IF ~(nOptions >= MinOptions) THEN "At least 2 options required"
  ELSE IF ~(startTime < endTime) THEN "Invalid time range"
  ELSE constructorRevert(nOptions, startTime, endTime)

\* the address the factory makes owner of the voting it created:
\* newVoting.transferOwnership(msg.sender)
createVotingOwner(sender) == sender

\* address(newVoting): the address of the contract that createVoting
\* deploys, which is also the value it returns
newVotingAddress == VotingAddress + Len(votingContracts)

\* mutant: the index stored for the creator is the length after the push
createVoting_IndexAfterPush(sender, title, nOptions, startTime, endTime) ==
  /\ createVotingRevert(title, nOptions, startTime, endTime) = OK
  /\ IF ~deployed
     THEN /\ constructor(FactoryAddress, title, nOptions, startTime, endTime)
          /\ owner' = createVotingOwner(sender)
     ELSE UNCHANGED <<votingVars, emitted>>
  /\ votingContracts' = Append(votingContracts,
       [contractAddress |-> newVotingAddress, creator |-> sender,
        title |-> title, createdAt |-> now, isActive |-> TRUE])
  /\ creatorToVotings' = [creatorToVotings EXCEPT
       ![sender] = Append(@, Len(votingContracts) + 1)]
  /\ isValidVotingContract' =
       [isValidVotingContract EXCEPT ![newVotingAddress] = TRUE]
  /\ UNCHANGED <<now, pendingRequests, ballots, factoryOwner>>
  /\ UNCHANGED frontendVars

createVoting(sender, title, nOptions, startTime, endTime) ==
  /\ createVotingRevert(title, nOptions, startTime, endTime) = OK
  \* new PrivateVoting(...): the constructor's msg.sender is the factory;
  \* the storage of the new contract is tracked for the first voting
  /\ IF ~deployed
     THEN /\ constructor(FactoryAddress, title, nOptions, startTime, endTime)
          /\ owner' = createVotingOwner(sender)
     ELSE UNCHANGED <<votingVars, emitted>>
  /\ votingContracts' = Append(votingContracts,
       [contractAddress |-> newVotingAddress, creator |-> sender,
        title |-> title, createdAt |-> now, isActive |-> TRUE])
  /\ creatorToVotings' = [creatorToVotings EXCEPT
       ![sender] = Append(@, Len(votingContracts))]
  /\ isValidVotingContract' =
       [isValidVotingContract EXCEPT ![newVotingAddress] = TRUE]
  /\ UNCHANGED <<now, pendingRequests, ballots, factoryOwner>>
  /\ UNCHANGED frontendVars

Deploy ==
  \E sender \in Creators, title \in {"T"}, n \in OptionCounts,
     s \in CreationTimes, e \in CreationTimes :
       deployPrivateVoting(sender, title, n, s, e)

\* the creation of the voting that Spec follows
CreateVoting ==
  /\ ~deployed
  /\ \E sender \in Creators, title \in Titles, n \in OptionCounts,
        s \in CreationTimes, e \in CreationTimes :
          createVoting(sender, title, n, s, e)

\* creations through the factory in FactorySpec, by any account
FactoryCreateVoting ==
  /\ Len(votingContracts) < MaxVotings
  /\ \E sender \in Users, title \in Titles, n \in OptionCounts,
        s \in CreationTimes, e \in CreationTimes :
          createVoting(sender, title, n, s, e)

\* ------------------------------------------------- VotingFactory records
NotFound == -1

\* findVotingIndex: the index (from 0) of the first record with that
\* address; NotFound stands for the revert 'Voting contract not found'
findVotingIndex(votingAddress) ==
  IF \E i \in 0..(Len(votingContracts) - 1) :
       votingContracts[i + 1].contractAddress = votingAddress
  THEN CHOOSE i \in 0..(Len(votingContracts) - 1) :
         /\ votingContracts[i + 1].contractAddress = votingAddress
         /\ \A j \in 0..(i - 1) :
              votingContracts[j + 1].contractAddress # votingAddress
  ELSE NotFound

\* mutant: deactivateVoting() without the check of the active flag
deactivateVotingRevert_NoActive(sender, votingAddress) ==
  IF ~isValidVotingContract[votingAddress] THEN "Invalid voting contract"
  ELSE IF findVotingIndex(votingAddress) = NotFound
       THEN "Voting contract not found"
  ELSE IF ~(findVotingIndex(votingAddress) < Len(votingContracts))
       THEN "Voting not found"
  ELSE IF ~(\/ votingContracts[findVotingIndex(votingAddress) + 1].creator
                 = sender
            \/ factoryOwner = sender)
       THEN "Not authorized to deactivate"
  ELSE OK

deactivateVotingRevert(sender, votingAddress) ==
  IF ~isValidVotingContract[votingAddress] THEN "Invalid voting contract"
  ELSE IF findVotingIndex(votingAddress) = NotFound
       THEN "Voting contract not found"
  ELSE IF ~(findVotingIndex(votingAddress) < Len(votingContracts))
       THEN "Voting not found"
  ELSE IF ~(\/ votingContracts[findVotingIndex(votingAddress) + 1].creator
                 = sender
            \/ factoryOwner = sender)
       THEN "Not authorized to deactivate"
  ELSE IF ~votingContracts[findVotingIndex(votingAddress) + 1].isActive
       THEN "Voting already deactivated"
  ELSE OK

\* mutant: the deactivation also ends the voting
deactivateVoting_EndsVoting(sender, votingAddress) ==
  /\ deactivateVotingRevert(sender, votingAddress) = OK
  /\ votingContracts' =
       [votingContracts EXCEPT
          ![findVotingIndex(votingAddress) + 1].isActive = FALSE]
  /\ votingInfo' = [votingInfo EXCEPT !.state = Ended]
  /\ UNCHANGED <<now, deployed, owner, encryptedVoteCounts, hasVoted,
                 authorizedVoters, decryptedResults, resultsDecrypted,
                 pendingRequests, ballots, emitted,
                 creatorToVotings, isValidVotingContract, factoryOwner>>
  /\ UNCHANGED frontendVars

deactivateVoting(sender, votingAddress) ==
  /\ deactivateVotingRevert(sender, votingAddress) = OK
  /\ votingContracts' =
       [votingContracts EXCEPT
          ![findVotingIndex(votingAddress) + 1].isActive = FALSE]
  /\ UNCHANGED <<now, votingVars, pendingRequests, ballots, emitted,
                 creatorToVotings, isValidVotingContract, factoryOwner>>
  /\ UNCHANGED frontendVars

\* addresses passed to the factory: the votings' and two that are none
FactoryArgs == VotingAddresses \cup {ZeroAddress, FactoryAddress}

DeactivateVoting ==
  \E sender \in Users, a \in FactoryArgs : deactivateVoting(sender, a)

emergencyUpdateVotingStatusRevert(sender, votingAddress) ==
  IF ~(factoryOwner = sender) THEN Unauthorized
  ELSE IF ~isValidVotingContract[votingAddress] THEN "Invalid voting contract"
  ELSE IF findVotingIndex(votingAddress) = NotFound
       THEN "Voting contract not found"
  ELSE OK

emergencyUpdateVotingStatus(sender, votingAddress, isActive) ==
  /\ emergencyUpdateVotingStatusRevert(sender, votingAddress) = OK
  /\ votingContracts' =
       [votingContracts EXCEPT
          ![findVotingIndex(votingAddress) + 1].isActive = isActive]
  /\ UNCHANGED <<now, votingVars, pendingRequests, ballots, emitted,
                 creatorToVotings, isValidVotingContract, factoryOwner>>
  /\ UNCHANGED frontendVars

EmergencyUpdateVotingStatus ==
  \E sender \in Users, a \in FactoryArgs, isActive \in BOOLEAN :
    emergencyUpdateVotingStatus(sender, a, isActive)

\* getTotalVotingsCount()
getTotalVotingsCount == Len(votingContracts)

\* the loop of getActiveVotings() over the first n records
RECURSIVE activeVotingsUpTo(_)
activeVotingsUpTo(n) ==
  IF n = 0 THEN <<>>
  ELSE IF votingContracts[n].isActive
       THEN Append(activeVotingsUpTo(n - 1), votingContracts[n])
       ELSE activeVotingsUpTo(n - 1)

\* getActiveVotings()
getActiveVotings == activeVotingsUpTo(Len(votingContracts))

\* the loop of getActiveVotingsCount() over the first n records
RECURSIVE activeCountUpTo(_)
activeCountUpTo(n) ==
  IF n = 0 THEN 0
  ELSE activeCountUpTo(n - 1) + (IF votingContracts[n].isActive THEN 1 ELSE 0)

\* mutant: the count of all the records
getActiveVotingsCount_Total == Len(votingContracts)

\* getActiveVotingsCount()
getActiveVotingsCount == activeCountUpTo(Len(votingContracts))

\* mutant: every record, whoever created it
getVotingsByCreator_All(creator) == votingContracts

\* getVotingsByCreator(): the records at the indices of the creator's list
getVotingsByCreator(creator) ==
  [i \in 1..Len(creatorToVotings[creator]) |->
     votingContracts[creatorToVotings[creator][i] + 1]]

\* uint256, scaled down to UintBits bits
UintBits == 3
MaxUint == 2 ^ UintBits - 1
UintValues == 0..MaxUint

\* getPaginatedVotings(): the two requires, then the checked addition
\* _offset + _limit, which panics on overflow
getPaginatedVotingsRevert(offset, limit) ==
  IF ~(limit > 0) THEN "Limit must be greater than 0"
  ELSE IF ~(offset < Len(votingContracts)) THEN "Offset out of bounds"
  ELSE IF offset + limit > MaxUint THEN "Panic(0x11)"
  ELSE OK

\* the end index of the page
paginatedEnd(offset, limit) ==
  IF offset + limit > Len(votingContracts)
  THEN Len(votingContracts) ELSE offset + limit

\* the pair returned by getPaginatedVotings() when it does not revert
getPaginatedVotings(offset, limit) ==
  <<[i \in 1..(paginatedEnd(offset, limit) - offset) |->
       votingContracts[offset + (i - 1) + 1]],
    Len(votingContracts)>>

\* ------------------------------------------------------------- modifiers
onlyOwner(sender) == owner = sender

\* --------------------------------------------------------------- Ownable
\* Ownable.transferOwnership of the voting, inherited (OpenZeppelin 5):
\* onlyOwner, and the new owner is not the zero address
transferOwnershipRevert(sender, newOwner) ==
  IF ~onlyOwner(sender) THEN Unauthorized
  ELSE IF newOwner = ZeroAddress THEN "OwnableInvalidOwner"
  ELSE OK

transferOwnership(sender, newOwner) ==
  /\ deployed
  /\ transferOwnershipRevert(sender, newOwner) = OK
  /\ owner' = newOwner
  /\ UNCHANGED <<now, deployed, votingInfo, encryptedVoteCounts, hasVoted,
                 authorizedVoters, decryptedResults, resultsDecrypted,
                 pendingRequests, ballots, emitted, factoryVars>>
  /\ UNCHANGED frontendVars

\* the addresses passed as the new owner of the voting: the zero address,
\* which is rejected, and an account that did not create the voting
NewOwners == {ZeroAddress, NumUsers}

TransferOwnership ==
  \E sender \in Users, newOwner \in NewOwners :
    transferOwnership(sender, newOwner)

\* Ownable.renounceOwnership of the voting, inherited: onlyOwner
renounceOwnershipRevert(sender) ==
  IF ~onlyOwner(sender) THEN Unauthorized ELSE OK

renounceOwnership(sender) ==
  /\ deployed
  /\ renounceOwnershipRevert(sender) = OK
  /\ owner' = ZeroAddress
  /\ UNCHANGED <<now, deployed, votingInfo, encryptedVoteCounts, hasVoted,
                 authorizedVoters, decryptedResults, resultsDecrypted,
                 pendingRequests, ballots, emitted, factoryVars>>
  /\ UNCHANGED frontendVars

RenounceOwnership == \E sender \in Users : renounceOwnership(sender)

\* Ownable.transferOwnership of the factory, inherited
factoryTransferOwnershipRevert(sender, newOwner) ==
  IF ~(factoryOwner = sender) THEN Unauthorized
  ELSE IF newOwner = ZeroAddress THEN "OwnableInvalidOwner"
  ELSE OK

factoryTransferOwnership(sender, newOwner) ==
  /\ factoryTransferOwnershipRevert(sender, newOwner) = OK
  /\ factoryOwner' = newOwner
  /\ UNCHANGED <<now, votingVars, pendingRequests, ballots, emitted,
                 votingContracts, creatorToVotings, isValidVotingContract>>
  /\ UNCHANGED frontendVars

FactoryTransferOwnership ==
  \E sender \in Users, newOwner \in VoterArgs :
    factoryTransferOwnership(sender, newOwner)

\* Ownable.renounceOwnership of the factory, inherited
factoryRenounceOwnershipRevert(sender) ==
  IF ~(factoryOwner = sender) THEN Unauthorized ELSE OK

factoryRenounceOwnership(sender) ==
  /\ factoryRenounceOwnershipRevert(sender) = OK
  /\ factoryOwner' = ZeroAddress
  /\ UNCHANGED <<now, votingVars, pendingRequests, ballots, emitted,
                 votingContracts, creatorToVotings, isValidVotingContract>>
  /\ UNCHANGED frontendVars

FactoryRenounceOwnership ==
  \E sender \in Users : factoryRenounceOwnership(sender)

\* mutant: any stored state but NotStarted passes
onlyDuringVoting_Started ==
  /\ now >= votingInfo.startTime /\ now <= votingInfo.endTime
  /\ votingInfo.state # NotStarted

\* mutant: the time window alone, without the check of the stored state
onlyDuringVoting_TimeOnly ==
  now >= votingInfo.startTime /\ now <= votingInfo.endTime

onlyDuringVoting ==
  /\ now >= votingInfo.startTime /\ now <= votingInfo.endTime
  /\ votingInfo.state = Active

onlyAuthorizedVoter(sender) == authorizedVoters[sender]

hasNotVoted(sender) == ~hasVoted[sender]

\* mutant: >= instead of > in the comparison with endTime
onlyAfterVoting_Geq == now >= votingInfo.endTime \/ votingInfo.state = Ended

onlyAfterVoting == now > votingInfo.endTime \/ votingInfo.state = Ended


\* ------------------------------------------------------------------ vote
\* mutant: vote() without the check of the range of the vote
voteRevert_NoRange(sender, v) ==
  IF ~onlyDuringVoting THEN "Voting is not active"
  ELSE IF ~onlyAuthorizedVoter(sender) THEN "Not authorized to vote"
  ELSE IF ~hasNotVoted(sender) THEN "Already voted"
  ELSE OK

\* mutant: vote() without the hasNotVoted modifier
voteRevert_NoHasNotVoted(sender, v) ==
  IF ~onlyDuringVoting THEN "Voting is not active"
  ELSE IF ~onlyAuthorizedVoter(sender) THEN "Not authorized to vote"
  ELSE IF ~(v <= votingInfo.options - 1) THEN "Invalid vote option"
  ELSE OK

\* mutant: vote() without the onlyAuthorizedVoter modifier
voteRevert_NoAuthorized(sender, v) ==
  IF ~onlyDuringVoting THEN "Voting is not active"
  ELSE IF ~hasNotVoted(sender) THEN "Already voted"
  ELSE IF ~(v <= votingInfo.options - 1) THEN "Invalid vote option"
  ELSE OK

\* modifiers in their declared order, then the body's checks
voteRevert(sender, v) ==
  IF ~onlyDuringVoting THEN "Voting is not active"
  ELSE IF ~onlyAuthorizedVoter(sender) THEN "Not authorized to vote"
  ELSE IF ~hasNotVoted(sender) THEN "Already voted"
  ELSE IF ~(v <= votingInfo.options - 1) THEN "Invalid vote option"
  ELSE OK

\* mutant: the increment without the comparison with the option
voteIncrement_Always(v, i) == 1

\* TFHE.add(count, TFHE.select(TFHE.eq(vote, i), 1, 0)) on plaintexts
voteIncrement(v, i) == IF v = i THEN 1 ELSE 0

vote(sender, v) ==
  /\ deployed
  /\ voteRevert(sender, v) = OK
  /\ encryptedVoteCounts' =
       [i \in OptionIndices |->
          IF i < votingInfo.options
          THEN encryptedVoteCounts[i] + voteIncrement(v, i)
          ELSE encryptedVoteCounts[i]]
  /\ hasVoted' = [hasVoted EXCEPT ![sender] = TRUE]
  /\ votingInfo' = [votingInfo EXCEPT !.totalVoters = @ + 1]
  /\ ballots' = [ballots EXCEPT ![sender] = v]
  /\ emitted' = emit("VoteCast")
  /\ UNCHANGED <<now, deployed, owner, authorizedVoters,
                 decryptedResults, resultsDecrypted, pendingRequests,
                 factoryVars>>
  /\ UNCHANGED frontendVars

Vote == \E sender \in Users, v \in VoteValues : vote(sender, v)

\* --------------------------------------------------------- authorization
\* mutant: authorizeVoter() without the check of the zero address
authorizeVoterRevert_NoZero(sender, voter) ==
  IF ~onlyOwner(sender) THEN Unauthorized ELSE OK

authorizeVoterRevert(sender, voter) ==
  IF ~onlyOwner(sender) THEN Unauthorized
  ELSE IF ~(voter # ZeroAddress) THEN "Invalid address"
  ELSE OK

authorizeVoter(sender, voter) ==
  /\ deployed
  /\ authorizeVoterRevert(sender, voter) = OK
  /\ authorizedVoters' = [authorizedVoters EXCEPT ![voter] = TRUE]
  /\ emitted' = emit("VoterAuthorized")
  /\ UNCHANGED <<now, deployed, owner, votingInfo, encryptedVoteCounts,
                 hasVoted, decryptedResults, resultsDecrypted,
                 pendingRequests, ballots, factoryVars>>
  /\ UNCHANGED frontendVars

AuthorizeVoter ==
  \E sender \in Users : \E voter \in VoterArgs :
    authorizeVoter(sender, voter)

SeqsUpTo(S, n) == UNION {[1..k -> S] : k \in 0..n}

\* mutant: only the first entry of the list is checked
authorizeVotersRevert_FirstOnly(sender, voters) ==
  IF ~onlyOwner(sender) THEN Unauthorized
  ELSE IF Len(voters) >= 1 /\ ~(voters[1] # ZeroAddress)
       THEN "Invalid address"
  ELSE OK

authorizeVotersRevert(sender, voters) ==
  IF ~onlyOwner(sender) THEN Unauthorized
  ELSE IF \E i \in 1..Len(voters) : ~(voters[i] # ZeroAddress)
       THEN "Invalid address"
  ELSE OK

\* authorizedVoters after the loop of authorizeVoters over the list
authorizeVotersStore(voters) ==
  [a \in Addresses |->
     IF \E i \in 1..Len(voters) : voters[i] = a
     THEN TRUE ELSE authorizedVoters[a]]

authorizeVoters(sender, voters) ==
  /\ deployed
  /\ authorizeVotersRevert(sender, voters) = OK
  /\ authorizedVoters' = authorizeVotersStore(voters)
  /\ emitted' = IF Len(voters) > 0 THEN emit("VoterAuthorized") ELSE emitted
  /\ UNCHANGED <<now, deployed, owner, votingInfo, encryptedVoteCounts,
                 hasVoted, decryptedResults, resultsDecrypted,
                 pendingRequests, ballots, factoryVars>>
  /\ UNCHANGED frontendVars

\* the lists passed to authorizeVoters: the loop writes true for every
\* entry, whatever the order and the repetitions, so the lists are tried
\* in increasing order of their entries
AllVoterLists == SeqsUpTo(VoterArgs, MaxList)

VoterLists ==
  {l \in AllVoterLists :
     \A i \in 1..Len(l), j \in 1..Len(l) : i < j => l[i] < l[j]}

AuthorizeVoters ==
  \E sender \in Users, voters \in VoterLists : authorizeVoters(sender, voters)

\* mutant: revokeVoter() without the onlyOwner modifier
revokeVoterRevert_NoOwner(sender, voter) == OK

revokeVoterRevert(sender, voter) ==
  IF ~onlyOwner(sender) THEN Unauthorized ELSE OK

revokeVoter(sender, voter) ==
  /\ deployed
  /\ revokeVoterRevert(sender, voter) = OK
  /\ authorizedVoters' = [authorizedVoters EXCEPT ![voter] = FALSE]
  /\ emitted' = emit("VoterRevoked")
  /\ UNCHANGED <<now, deployed, owner, votingInfo, encryptedVoteCounts,
                 hasVoted, decryptedResults, resultsDecrypted,
                 pendingRequests, ballots, factoryVars>>
  /\ UNCHANGED frontendVars

RevokeVoter ==
  \E sender \in Users : \E voter \in VoterArgs :
    revokeVoter(sender, voter)

\* ------------------------------------------------------ state management
\* mutant: endVoting() without the check of the stored state
endVotingRevert_NoState(sender) ==
  IF ~onlyOwner(sender) THEN Unauthorized ELSE OK

endVotingRevert(sender) ==
  IF ~onlyOwner(sender) THEN Unauthorized
  ELSE IF ~(votingInfo.state = Active) THEN "Voting not active"
  ELSE OK

endVoting(sender) ==
  /\ deployed
  /\ endVotingRevert(sender) = OK
  /\ votingInfo' = [votingInfo EXCEPT !.state = Ended]
  /\ emitted' = emit("VotingEnded")
  /\ UNCHANGED <<now, deployed, owner, encryptedVoteCounts, hasVoted,
                 authorizedVoters, decryptedResults, resultsDecrypted,
                 pendingRequests, ballots, factoryVars>>
  /\ UNCHANGED frontendVars

EndVoting == \E sender \in Users : endVoting(sender)

\* mutant: startVoting() without the check of the stored state
startVotingRevert_NoState(sender) ==
  IF ~onlyOwner(sender) THEN Unauthorized
  ELSE IF ~(now >= votingInfo.startTime) THEN "Start time not reached"
  ELSE OK

\* mutant: startVoting() without the check of the start time
startVotingRevert_NoTime(sender) ==
  IF ~onlyOwner(sender) THEN Unauthorized
  ELSE IF ~(votingInfo.state = NotStarted) THEN "Voting already started"
  ELSE OK

startVotingRevert(sender) ==
  IF ~onlyOwner(sender) THEN Unauthorized
  ELSE IF ~(votingInfo.state = NotStarted) THEN "Voting already started"
  ELSE IF ~(now >= votingInfo.startTime) THEN "Start time not reached"
  ELSE OK

startVoting(sender) ==
  /\ deployed
  /\ startVotingRevert(sender) = OK
  /\ votingInfo' = [votingInfo EXCEPT !.state = Active]
  /\ UNCHANGED <<now, deployed, owner, encryptedVoteCounts, hasVoted,
                 authorizedVoters, decryptedResults, resultsDecrypted,
                 pendingRequests, ballots, emitted, factoryVars>>
  /\ UNCHANGED frontendVars

StartVoting == \E sender \in Users : startVoting(sender)

\* --------------------------------------------------------------- results
\* mutant: requestResults() without the check of resultsRequested
requestResultsRevert_NoOnce(sender) ==
  IF ~onlyOwner(sender) THEN Unauthorized
  ELSE IF ~onlyAfterVoting THEN "Voting is still active"
  ELSE OK

requestResultsRevert(sender) ==
  IF ~onlyOwner(sender) THEN Unauthorized
  ELSE IF ~onlyAfterVoting THEN "Voting is still active"
  ELSE IF ~(~votingInfo.resultsRequested) THEN "Results already requested"
  ELSE OK

\* the decryption requests of one requestResults(): request i carries the
\* one-element list cts = <<encryptedVoteCounts[i]>>
issuedRequests ==
  {[id |-> i, cts |-> <<encryptedVoteCounts[i]>>] :
     i \in 0..(votingInfo.options - 1)}

requestResults(sender) ==
  /\ deployed
  /\ requestResultsRevert(sender) = OK
  /\ votingInfo' = [votingInfo EXCEPT !.resultsRequested = TRUE,
                                      !.state = Ended]
  /\ pendingRequests' = pendingRequests \cup issuedRequests
  /\ emitted' = emit("ResultsRequested")
  /\ UNCHANGED <<now, deployed, owner, encryptedVoteCounts, hasVoted,
                 authorizedVoters, decryptedResults, resultsDecrypted,
                 ballots, factoryVars>>
  /\ UNCHANGED frontendVars

RequestResults == \E sender \in Users : requestResults(sender)

\* decryptedResults after the loop of callbackResults over decryptedInput
callbackStore(decryptedInput) ==
  [i \in OptionIndices |->
     IF i < Len(decryptedInput) /\ i < votingInfo.options
     THEN decryptedInput[i + 1]
     ELSE decryptedResults[i]]

\* the gateway answers one pending request with the plaintexts of its cts
callbackResults(request) ==
  /\ request \in pendingRequests
  /\ decryptedResults' = callbackStore(request.cts)
  /\ resultsDecrypted' = TRUE
  /\ votingInfo' = [votingInfo EXCEPT !.state = ResultsRevealed]
  /\ pendingRequests' = pendingRequests \ {request}
  /\ emitted' = emit("ResultsRevealed")
  /\ UNCHANGED <<now, deployed, owner, encryptedVoteCounts, hasVoted,
                 authorizedVoters, ballots, factoryVars>>
  /\ UNCHANGED frontendVars

CallbackResults == \E request \in pendingRequests : callbackResults(request)

\* mutant: getResults() without its require
getResultsRevert_NoRequire == OK

\* the require of getResults()
getResultsRevert ==
  IF ~resultsDecrypted THEN "Results not yet decrypted" ELSE OK

\* getResults(): the reason of the revert, or the array it returns
getResults ==
  IF ~resultsDecrypted THEN "Results not yet decrypted"
  ELSE [i \in 0..(votingInfo.options - 1) |-> decryptedResults[i]]

\* ----------------------------------------------------------------- views
\* mutant: the time window alone
isVotingActive_TimeOnly ==
  /\ now >= votingInfo.startTime
  /\ now <= votingInfo.endTime

isVotingActive ==
  /\ votingInfo.state = Active
  /\ now >= votingInfo.startTime
  /\ now <= votingInfo.endTime

getCurrentState ==
  IF votingInfo.state = NotStarted /\ now >= votingInfo.startTime
  THEN Active
  ELSE IF votingInfo.state = Active /\ now > votingInfo.endTime
  THEN Ended
  ELSE votingInfo.state

\* ------------------------------------------------------ frontend: effects
\* the errors with which a request to the wallet extension rejects: the
\* refusal of the user, a request already open, and an error without one of
\* these two codes, with or without a message
WalletErrors ==
  {[code |-> UserRejectedCode, message |-> "User rejected the request."],
   [code |-> RequestPendingCode, message |-> "Request already pending"],
   [code |-> Null, message |-> "Internal error"],
   [code |-> Null, message |-> ""]}

\* the toast.error of the catch block of connect()
connectErrorToast(error) ==
  IF error.code = UserRejectedCode THEN "Connection rejected by user"
  ELSE IF error.code = RequestPendingCode
  THEN "Connection request already pending"
  ELSE IF error.message # "" THEN error.message
  ELSE "Network error occurred"

\* the toast.error of the catch block of switchNetwork()
switchNetworkErrorToast(error) ==
  IF error.message # "" THEN error.message ELSE "Failed to switch network"

\* WalletProvider, useEffect on [wallet.address, wallet.chainId, provider]:
\* every run with an address and a provider starts one more
\* updateBalance() for the address of the new render; newProvider says
\* that setProvider was given a new BrowserProvider
updateBalanceEffect(newProvider) ==
  IF /\ \/ newProvider
        \/ provider' # provider
        \/ wallet'.address # wallet.address
        \/ wallet'.chainId # wallet.chainId
     /\ wallet'.address # Null
     /\ provider'
  THEN /\ BagCardinality(balanceFetches) < MaxInFlight
       /\ balanceFetches' = balanceFetches (+) SetToBag({wallet'.address})
  ELSE balanceFetches' = balanceFetches

\* FHEVMProvider, useEffect on [wallet.isConnected, wallet.chainId]:
\* initializeFHEVM() is started, or the instance and the error are reset
fhevmEffect ==
  IF \/ "FHEVMProvider" \notin mounted
     \/ /\ wallet'.isConnected = wallet.isConnected
        /\ wallet'.chainId = wallet.chainId
  THEN fhevm' = fhevm
  ELSE IF wallet'.isConnected /\ wallet'.chainId = ConfiguredChainId
  THEN /\ fhevm.inFlight < MaxInFlight
       /\ fhevm' = [fhevm EXCEPT !.loading = TRUE, !.error = FALSE,
                                 !.inFlight = @ + 1]
  ELSE fhevm' = [fhevm EXCEPT !.instance = FALSE, !.error = FALSE]

\* the call of the factory that loadVotings() makes for a filter
queryOf(filter, address) ==
  IF filter = "active" THEN <<"getActiveVotings", Null>>
  ELSE IF filter = "my-votings" THEN <<"getVotingsByCreator", address>>
  ELSE <<"getAllVotings", Null>>

\* useEthersProvider().getProvider() of the new render is not null
getProvider == config.ethereum /\ wallet'.isConnected

\* HomePage, useEffect on [wallet.isConnected, filter]: the effect runs
loadVotingsRuns(filter) ==
  /\ "HomePage" \in mounted
  /\ ~(wallet'.isConnected = wallet.isConnected /\ filter = home.filter)

\* the functions of VOTING_FACTORY_ABI, from which ethers.Contract builds
\* its methods: getVotingsByCreator is not one of them
VOTING_FACTORY_ABI == {"createVoting", "getAllVotings", "getActiveVotings"}

\* loadVotings() throws before a query is sent: no provider, no address of
\* the factory in the configuration, or a call of the contract object for
\* a function that its ABI does not have
loadVotingsThrows(filter) ==
  /\ loadVotingsRuns(filter)
  /\ wallet'.isConnected
  /\ \/ ~getProvider
     \/ ~config.votingFactory
     \/ queryOf(filter, wallet'.address)[1] \notin VOTING_FACTORY_ABI

\* loadVotings() with the filter and the wallet of the new render: every
\* run with a connected wallet sends one more query
loadVotingsEffect(filter) ==
  IF ~loadVotingsRuns(filter) THEN home' = home
  ELSE IF ~wallet'.isConnected \/ loadVotingsThrows(filter)
  THEN home' = [home EXCEPT !.filter = filter, !.loading = FALSE]
  ELSE /\ BagCardinality(home.inFlight) < MaxInFlight
       /\ home' = [home EXCEPT
            !.filter = filter, !.loading = TRUE,
            !.inFlight = @ (+) SetToBag({queryOf(filter, wallet'.address)})]

\* the error toasts of a step: those of the handler, then the one of a
\* loadVotings() that throws in the effect that follows
showToasts(shown, filter) ==
  toasts' = IF loadVotingsThrows(filter)
            THEN Append(shown, "Failed to load votings")
            ELSE shown

\* the effects that run after a render of WalletProvider
walletEffects(newProvider) ==
  /\ updateBalanceEffect(newProvider)
  /\ fhevmEffect
  /\ loadVotingsEffect(home.filter)
  /\ showToasts(<<>>, home.filter)

\* ----------------------------------------------- frontend: WalletProvider
\* setProvider(provider); setWallet({isConnected: true, ...})
setConnected(address, chainId) ==
  /\ provider' = TRUE
  /\ wallet' = [isConnected |-> TRUE, address |-> address,
                chainId |-> chainId, balance |-> getBalance(address)]

\* checkConnection() completes with an account of the wallet extension
checkConnectionFound(address, chainId) ==
  /\ checkConnectionPending
  /\ checkConnectionPending' = FALSE
  /\ setConnected(address, chainId)
  /\ walletEffects(TRUE)
  /\ UNCHANGED <<mounted, config, connectCalls, chainVars>>

CheckConnectionFound ==
  \E address \in Accounts, chainId \in ChainIds :
    checkConnectionFound(address, chainId)

\* checkConnection() completes with no account, or with an error
CheckConnectionNone ==
  /\ checkConnectionPending
  /\ checkConnectionPending' = FALSE
  /\ toasts' = <<>>
  /\ UNCHANGED <<mounted, config, wallet, provider, balanceFetches,
                 connectCalls, fhevm, home, chainVars>>

disconnect ==
  /\ wallet' = DisconnectedWallet
  /\ provider' = FALSE
  /\ walletEffects(FALSE)
  /\ UNCHANGED <<mounted, config, checkConnectionPending, connectCalls,
                 chainVars>>

\* the Disconnect button of the header, shown while connected
Disconnect == wallet.isConnected /\ disconnect

\* setupEventListeners(): the handlers are registered when window.ethereum
\* is defined
listening == config.ethereum

\* the event 'disconnect' of the wallet extension
handleDisconnect == listening /\ disconnect

\* the event 'accountsChanged' with the list accounts
handleAccountsChanged(accounts) ==
  IF Len(accounts) = 0
  THEN disconnect
  ELSE /\ wallet' = [wallet EXCEPT !.address = accounts[1]]
       /\ provider' = provider
       /\ walletEffects(FALSE)
       /\ UNCHANGED <<mounted, config, checkConnectionPending,
                      connectCalls, chainVars>>

HandleAccountsChanged ==
  /\ listening
  /\ \E accounts \in {<<>>} \cup {<<a>> : a \in Accounts} :
       handleAccountsChanged(accounts)

\* the event 'chainChanged'
handleChainChanged(newChainId) ==
  /\ wallet' = [wallet EXCEPT !.chainId = newChainId]
  /\ provider' = provider
  /\ walletEffects(FALSE)
  /\ UNCHANGED <<mounted, config, checkConnectionPending, connectCalls,
                 chainVars>>

HandleChainChanged ==
  /\ listening
  /\ \E newChainId \in ChainIds : handleChainChanged(newChainId)

\* connect() up to its first await: without window.ethereum the call
\* rejects at once after the toast of its catch block, otherwise
\* eth_requestAccounts is sent
connect ==
  /\ connectCalls.requesting + connectCalls.switching < MaxInFlight
  /\ IF ~config.ethereum
     THEN /\ toasts' = <<"MetaMask is not installed">>
          /\ connectCalls' = connectCalls
     ELSE /\ toasts' = <<>>
          /\ connectCalls' = [connectCalls EXCEPT !.requesting = @ + 1]
  /\ UNCHANGED <<mounted, config, wallet, provider, checkConnectionPending,
                 balanceFetches, fhevm, home, chainVars>>

\* the Connect Wallet button of the header, shown while the wallet is not
\* connected
handleConnectWallet == ~wallet.isConnected /\ connect

\* connect(): eth_requestAccounts, or one of the reads that follow it,
\* rejects with error
connectRequestRejected(error) ==
  /\ connectCalls.requesting > 0
  /\ connectCalls' = [connectCalls EXCEPT !.requesting = @ - 1]
  /\ toasts' = <<connectErrorToast(error)>>
  /\ UNCHANGED <<mounted, config, wallet, provider, checkConnectionPending,
                 balanceFetches, fhevm, home, chainVars>>

ConnectRequestRejected ==
  \E error \in WalletErrors : connectRequestRejected(error)

\* connect(): the account and the network are read and stored; on a wrong
\* chain switchNetwork() is then awaited, otherwise connect() resolves
connectAccepted(address, chainId) ==
  /\ connectCalls.requesting > 0
  /\ setConnected(address, chainId)
  /\ connectCalls' =
       IF chainId # ConfiguredChainId
       THEN [connectCalls EXCEPT !.requesting = @ - 1, !.switching = @ + 1]
       ELSE [connectCalls EXCEPT !.requesting = @ - 1]
  /\ walletEffects(TRUE)
  /\ UNCHANGED <<mounted, config, checkConnectionPending, chainVars>>

ConnectAccepted ==
  \E address \in Accounts, chainId \in ChainIds :
    connectAccepted(address, chainId)

\* switchNetwork() resolves (after wallet_switchEthereumChain, or after
\* wallet_addEthereumChain when the chain was not known): connect()
\* resolves
switchNetworkResolved ==
  /\ connectCalls.switching > 0
  /\ connectCalls' = [connectCalls EXCEPT !.switching = @ - 1]
  /\ toasts' = <<>>
  /\ UNCHANGED <<mounted, config, wallet, provider, checkConnectionPending,
                 balanceFetches, fhevm, home, chainVars>>

\* switchNetwork() rejects with error: its catch block shows a toast and
\* rethrows, then the catch block of connect() shows its toast and
\* rethrows
switchNetworkRejected(error) ==
  /\ connectCalls.switching > 0
  /\ connectCalls' = [connectCalls EXCEPT !.switching = @ - 1]
  /\ toasts' = <<switchNetworkErrorToast(error), connectErrorToast(error)>>
  /\ UNCHANGED <<mounted, config, wallet, provider, checkConnectionPending,
                 balanceFetches, fhevm, home, chainVars>>

SwitchNetworkRejected ==
  \E error \in WalletErrors : switchNetworkRejected(error)

\* updateBalance(): a fetch started for address completes
updateBalanceResolved(address) ==
  /\ BagIn(address, balanceFetches)
  /\ balanceFetches' = balanceFetches (-) SetToBag({address})
  /\ wallet' = [wallet EXCEPT !.balance = getBalance(address)]
  /\ toasts' = <<>>
  /\ UNCHANGED <<mounted, config, provider, checkConnectionPending,
                 connectCalls, fhevm, home, chainVars>>

UpdateBalanceResolved ==
  \E address \in Accounts : updateBalanceResolved(address)

\* updateBalance(): a fetch fails, the error is logged
updateBalanceFailed(address) ==
  /\ BagIn(address, balanceFetches)
  /\ balanceFetches' = balanceFetches (-) SetToBag({address})
  /\ toasts' = <<>>
  /\ UNCHANGED <<mounted, config, wallet, provider, checkConnectionPending,
                 connectCalls, fhevm, home, chainVars>>

UpdateBalanceFailed ==
  \E address \in Accounts : updateBalanceFailed(address)

\* ---------------------------------------------- frontend: FHEVMProvider
\* initializeFHEVM(): createInstance resolves
initializeFHEVMResolved ==
  /\ fhevm.inFlight > 0
  /\ fhevm' = [fhevm EXCEPT !.instance = TRUE, !.loading = FALSE,
                            !.inFlight = @ - 1]
  /\ toasts' = <<>>
  /\ UNCHANGED <<mounted, config, walletVars, home, chainVars>>

\* initializeFHEVM(): the import or createInstance fails
initializeFHEVMFailed ==
  /\ fhevm.inFlight > 0
  /\ fhevm' = [fhevm EXCEPT !.error = TRUE, !.loading = FALSE,
                            !.inFlight = @ - 1]
  /\ toasts' = <<"Failed to initialize privacy features">>
  /\ UNCHANGED <<mounted, config, walletVars, home, chainVars>>

\* --------------------------------------------------- frontend: HomePage
\* a filter button of the page, shown while the wallet is connected
setFilter(filter) ==
  /\ "HomePage" \in mounted
  /\ wallet.isConnected
  /\ filter # home.filter
  /\ UNCHANGED <<mounted, config, walletVars, fhevm, chainVars>>
  /\ loadVotingsEffect(filter)
  /\ showToasts(<<>>, filter)

SetFilter == \E filter \in VotingFilters : setFilter(filter)

\* loadVotings(): a query sent resolves
loadVotingsResolved(query) ==
  /\ BagIn(query, home.inFlight)
  /\ home' = [home EXCEPT !.votings = query, !.loading = FALSE,
                          !.inFlight = @ (-) SetToBag({query})]
  /\ toasts' = <<>>
  /\ UNCHANGED <<mounted, config, walletVars, fhevm, chainVars>>

LoadVotingsResolved ==
  \E query \in BagToSet(home.inFlight) : loadVotingsResolved(query)

\* loadVotings(): a query sent fails
loadVotingsFailed(query) ==
  /\ BagIn(query, home.inFlight)
  /\ home' = [home EXCEPT !.loading = FALSE,
                          !.inFlight = @ (-) SetToBag({query})]
  /\ toasts' = <<"Failed to load votings">>
  /\ UNCHANGED <<mounted, config, walletVars, fhevm, chainVars>>

LoadVotingsFailed ==
  \E query \in BagToSet(home.inFlight) : loadVotingsFailed(query)

\* --------------------------------------------------------------- systems
Next ==
  \/ Tick
  \/ Deploy
  \/ CreateVoting
  \/ Vote
  \/ AuthorizeVoter
  \/ AuthorizeVoters
  \/ RevokeVoter
  \/ EndVoting
  \/ StartVoting
  \/ RequestResults
  \/ CallbackResults
  \/ TransferOwnership
  \/ RenounceOwnership

Spec == Init /\ [][Next]_vars

\* the voting with a clock that passes every end time
NextExpiry ==
  \/ Next
  \/ TickLate

ExpirySpec == Init /\ [][NextExpiry]_vars

\* the gateway answers every request it holds: callbackResults is
\* eventually called for a pending decryption request
LiveSpec == Spec /\ WF_vars(CallbackResults)

\* the voting, with the factory's flag of its record
NextRegistry ==
  \/ Next
  \/ DeactivateVoting
  \/ EmergencyUpdateVotingStatus
  \/ FactoryTransferOwnership
  \/ FactoryRenounceOwnership

RegistrySpec == Init /\ [][NextRegistry]_vars

\* WalletProvider alone
NextWallet ==
  \/ CheckConnectionFound
  \/ CheckConnectionNone
  \/ Disconnect
  \/ handleDisconnect
  \/ HandleAccountsChanged
  \/ HandleChainChanged
  \/ handleConnectWallet
  \/ ConnectRequestRejected
  \/ ConnectAccepted
  \/ switchNetworkResolved
  \/ SwitchNetworkRejected
  \/ UpdateBalanceResolved
  \/ UpdateBalanceFailed

\* the pages are not mounted: the address of the factory is not read
InitWallet ==
  InitChain /\ InitFrontend({}, {c \in Configs : ~c.votingFactory})

WalletSpec == InitWallet /\ [][NextWallet]_vars

\* FHEVMProvider under WalletProvider
NextFHEVM ==
  \/ NextWallet
  \/ initializeFHEVMResolved
  \/ initializeFHEVMFailed

InitFHEVM ==
  InitChain
    /\ InitFrontend({"FHEVMProvider"}, {c \in Configs : ~c.votingFactory})

FHEVMSpec == InitFHEVM /\ [][NextFHEVM]_vars

\* HomePage under WalletProvider
NextHome ==
  \/ NextWallet
  \/ SetFilter
  \/ LoadVotingsResolved
  \/ LoadVotingsFailed

InitHome == InitChain /\ InitFrontend({"HomePage"}, Configs)

HomeSpec == InitHome /\ [][NextHome]_vars

\* the factory over several creations
NextFactory ==
  \/ Tick
  \/ FactoryCreateVoting
  \/ DeactivateVoting
  \/ EmergencyUpdateVotingStatus
  \/ FactoryTransferOwnership
  \/ FactoryRenounceOwnership

FactorySpec == Init /\ [][NextFactory]_vars


\* ------------------------------------------------------------ properties
\* number of successful votes cast for option i
VotesFor(i) == Cardinality({a \in Addresses : ballots[a] = i})

\* the tallies: what a successful vote() changes
Tallies == <<hasVoted, encryptedVoteCounts, votingInfo.totalVoters, ballots>>

\* the time/state gate of vote(), written out
InVotingWindow ==
  /\ votingInfo.state = Active
  /\ votingInfo.startTime <= now
  /\ now <= votingInfo.endTime

\* C1 (as stated): once an address has voted, hasVoted stays true, no later
\* vote() by that address succeeds, and every later vote() by that address
\* reverts with 'Already voted'.
C1_AlreadyVotedAlways ==
  [][/\ \A a \in Addresses : hasVoted[a] => hasVoted'[a]
     /\ \A a \in Users, v \in VoteValues :
          hasVoted[a] => /\ ~vote(a, v)
                         /\ voteRevert(a, v) = "Already voted"]_vars

\* C1 (amended): once an address has voted, hasVoted stays true and every
\* later vote() by that address reverts, so no vote count and no
\* totalVoters changes by it; the reason is 'Already voted' when the
\* time/state gate passes and the address is authorized, 'Voting is not
\* active' when the gate fails, and 'Not authorized to vote' when the gate
\* passes and the address was revoked.
C1_AtMostOneVote ==
  [][/\ \A a \in Addresses : hasVoted[a] => hasVoted'[a]
     /\ \A a \in Users, v \in VoteValues :
          hasVoted[a] =>
             /\ ~vote(a, v)
             /\ voteRevert(a, v) =
                  IF ~InVotingWindow THEN "Voting is not active"
                  ELSE IF ~authorizedVoters[a] THEN "Not authorized to vote"
                  ELSE "Already voted"
     /\ votingInfo'.totalVoters # votingInfo.totalVoters =>
          /\ votingInfo'.totalVoters = votingInfo.totalVoters + 1
          /\ \E a \in Users :
               /\ ~hasVoted[a] /\ hasVoted'[a]
               /\ \A b \in Addresses \ {a} : hasVoted'[b] = hasVoted[b]]_vars

\* an address that voted is still authorized inside the active window: its
\* next vote() is rejected as 'Already voted'
C1_Witness ==
  /\ InVotingWindow
  /\ \E a \in Users : /\ hasVoted[a] /\ authorizedVoters[a]
                      /\ voteRevert(a, 0) = "Already voted"
  /\ votingInfo.totalVoters >= 1

\* C2 (as stated): vote() succeeds only for an authorized sender, and a
\* call by an unauthorized address reverts with 'Not authorized to vote'.
C2_NotAuthorizedAlways ==
  [][\A a \in Users, v \in VoteValues :
       /\ vote(a, v) => authorizedVoters[a]
       /\ (deployed /\ ~authorizedVoters[a]) =>
             voteRevert(a, v) = "Not authorized to vote"]_vars

\* C2 (amended): vote() succeeds only for an authorized sender; a call by
\* an unauthorized address reverts (hasVoted of that address is not set by
\* any step), with 'Not authorized to vote' when the time/state gate
\* passes and with 'Voting is not active' when it does not.
C2_OnlyAuthorizedVote ==
  [][\A a \in Users, v \in VoteValues :
       /\ vote(a, v) => authorizedVoters[a]
       /\ (deployed /\ ~authorizedVoters[a]) =>
             /\ hasVoted'[a] = hasVoted[a]
             /\ voteRevert(a, v) = IF InVotingWindow
                                   THEN "Not authorized to vote"
                                   ELSE "Voting is not active"]_vars

\* inside the active window an address that has not voted is not
\* authorized and is rejected, while another account than the owner is
\* authorized
C2_Witness ==
  /\ InVotingWindow
  /\ \E a \in Users : /\ ~authorizedVoters[a]
                      /\ ~hasVoted[a]
                      /\ voteRevert(a, 0) = "Not authorized to vote"
  /\ \E b \in Users : authorizedVoters[b] /\ b # owner

\* C3: vote() succeeds only if the stored state is Active and
\* startTime <= block.timestamp <= endTime; in every other situation it
\* reverts with 'Voting is not active' and no tally changes.
C3_VoteOnlyDuringVoting ==
  [][/\ \A a \in Users, v \in VoteValues : vote(a, v) => InVotingWindow
     /\ (deployed /\ ~InVotingWindow) =>
          /\ UNCHANGED Tallies
          /\ \A a \in Users, v \in VoteValues :
               voteRevert(a, v) = "Voting is not active"]_vars

\* after the owner's endVoting(), inside the time window, an authorized
\* address that has not voted is rejected
C3_Witness ==
  /\ votingInfo.state = Ended
  /\ votingInfo.startTime <= now /\ now < votingInfo.endTime
  /\ ~votingInfo.resultsRequested
  /\ \E a \in Users : /\ authorizedVoters[a] /\ ~hasVoted[a]
                      /\ voteRevert(a, 0) = "Voting is not active"

\* C4: requestResults() succeeds at most once: resultsRequested never goes
\* back to false, and once it is true no decryption request is issued and
\* every call by the owner reverts with 'Results already requested'.
C4_RequestResultsOnce ==
  [][/\ votingInfo.resultsRequested => votingInfo'.resultsRequested
     /\ votingInfo.resultsRequested =>
          /\ pendingRequests' \subseteq pendingRequests
          /\ requestResultsRevert(owner) = "Results already requested"]_vars

\* C5: requestResults() succeeds only when block.timestamp > endTime or
\* the stored state is Ended; before the voting has ended (state NotStarted
\* or Active, timestamp <= endTime) the owner's call reverts with 'Voting
\* is still active' and resultsRequested stays false.
C5_RequestOnlyAfterVoting ==
  [][/\ (votingInfo'.resultsRequested /\ ~votingInfo.resultsRequested) =>
          (now > votingInfo.endTime \/ votingInfo.state = Ended)
     /\ (/\ deployed
         /\ now <= votingInfo.endTime
         /\ votingInfo.state \in {NotStarted, Active}) =>
          /\ requestResultsRevert(owner) = "Voting is still active"
          /\ ~votingInfo.resultsRequested
          /\ ~votingInfo'.resultsRequested]_vars

\* the voting is running, votes were cast, and the owner's request is
\* rejected
C5_Witness ==
  /\ InVotingWindow
  /\ votingInfo.totalVoters >= 1
  /\ ~votingInfo.resultsRequested
  /\ requestResultsRevert(owner) = "Voting is still active"

\* C6: right after VotingFactory.createVoting by C succeeded, the owner of
\* the created voting is C and authorizedVoters[C] is true.
C6_OwnerAuthorizedAfterCreate ==
  [][\A c \in Creators, t \in Titles, n \in OptionCounts,
        s \in Times, e \in Times :
        createVoting(c, t, n, s, e) => (owner' = c /\ authorizedVoters'[c])]_vars

\* C7: once requestResults() has succeeded and every decryption request it
\* issued has been answered, getResults() has one entry per option and
\* entry i is the number of successful votes for option i.
C7_ResultsAreTallies ==
  (deployed /\ votingInfo.resultsRequested /\ pendingRequests = {}) =>
    getResults = [i \in 0..(votingInfo.options - 1) |-> VotesFor(i)]

\* C8: authorizeVoter, authorizeVoters, revokeVoter, startVoting, endVoting
\* and requestResults revert with OwnableUnauthorizedAccount when the
\* sender is not the current owner, whatever the arguments and the state
\* of the voting.
C8_OnlyOwner ==
  deployed =>
    \A a \in Users \ {owner} :
       /\ \A x \in VoterArgs :
            /\ authorizeVoterRevert(a, x) = "OwnableUnauthorizedAccount"
            /\ revokeVoterRevert(a, x) = "OwnableUnauthorizedAccount"
       /\ \A l \in AllVoterLists :
            authorizeVotersRevert(a, l) = "OwnableUnauthorizedAccount"
       /\ startVotingRevert(a) = "OwnableUnauthorizedAccount"
       /\ endVotingRevert(a) = "OwnableUnauthorizedAccount"
       /\ requestResultsRevert(a) = "OwnableUnauthorizedAccount"

\* the ownership was transferred: the new owner could end the voting, and
\* the account that created the voting, an authorized voter, cannot any
\* more
C8_Witness ==
  /\ deployed
  /\ endVotingRevert(owner) = OK
  /\ \E a \in Creators \ {owner} :
       /\ authorizedVoters[a]
       /\ endVotingRevert(a) = "OwnableUnauthorizedAccount"
       /\ revokeVoterRevert(a, owner) = "OwnableUnauthorizedAccount"

\* the messages of the creation conditions that the arguments violate
ViolatedMessages(n, s, e) ==
  {m \in {"At least 2 options required", "Maximum 10 options allowed",
          "Invalid time range"} :
     \/ m = "At least 2 options required" /\ ~(n >= 2)
     \/ m = "Maximum 10 options allowed" /\ ~(n <= 10)
     \/ m = "Invalid time range" /\ ~(s < e)}

\* C9 (as stated): creating a voting, through the factory or directly,
\* succeeds only if 2 <= options <= 10 and startTime < endTime; otherwise
\* it reverts with the message of a violated condition; every created
\* voting has 2..10 options and startTime < endTime, and no operation
\* changes them.
C9_CreationMessages ==
  [][/\ ~deployed =>
          \A c \in Creators, t \in Titles, n \in OptionCounts,
             s \in Times, e \in Times :
             /\ (createVoting(c, t, n, s, e) \/ deployPrivateVoting(c, t, n, s, e))
                  => (2 <= n /\ n <= 10 /\ s < e)
             /\ ViolatedMessages(n, s, e) # {} =>
                  /\ createVotingRevert(t, n, s, e) \in ViolatedMessages(n, s, e)
                  /\ constructorRevert(n, s, e) \in ViolatedMessages(n, s, e)
     /\ deployed' => /\ 2 <= votingInfo'.options /\ votingInfo'.options <= 10
                     /\ votingInfo'.startTime < votingInfo'.endTime
     /\ deployed => /\ votingInfo'.options = votingInfo.options
                    /\ votingInfo'.startTime = votingInfo.startTime
                    /\ votingInfo'.endTime = votingInfo.endTime]_vars

\* C9 (amended): as stated, except that VotingFactory.createVoting with an
\* empty title reverts with 'Title cannot be empty' whatever the other
\* arguments are.
C9_CreationValidated ==
  [][/\ ~deployed =>
          \A c \in Creators, t \in Titles, n \in OptionCounts,
             s \in Times, e \in Times :
             /\ (createVoting(c, t, n, s, e) \/ deployPrivateVoting(c, t, n, s, e))
                  => (2 <= n /\ n <= 10 /\ s < e)
             /\ t = "" => createVotingRevert(t, n, s, e) = "Title cannot be empty"
             /\ ViolatedMessages(n, s, e) # {} =>
                  /\ t # "" =>
                       createVotingRevert(t, n, s, e) \in ViolatedMessages(n, s, e)
                  /\ constructorRevert(n, s, e) \in ViolatedMessages(n, s, e)
     /\ deployed' => /\ 2 <= votingInfo'.options /\ votingInfo'.options <= 10
                     /\ votingInfo'.startTime < votingInfo'.endTime
     /\ deployed => /\ votingInfo'.options = votingInfo.options
                    /\ votingInfo'.startTime = votingInfo.startTime
                    /\ votingInfo'.endTime = votingInfo.endTime]_vars

\* a voting with the smallest option count allowed was created through the
\* factory and received a vote; a creation with 11 options is rejected by
\* the constructor's check
C9_Witness ==
  /\ deployed
  /\ votingContracts # <<>>
  /\ votingInfo.options = MinOptions
  /\ votingInfo.totalVoters >= 1
  /\ createVotingRevert("T", MaxOptions + 1, 0, MaxTime)
       = "Maximum 10 options allowed"

\* C10: the stored state never moves backwards in the order
\* NotStarted < Active < Ended < ResultsRevealed.
C10_StateMonotone ==
  [][deployed => votingInfo.state <= votingInfo'.state]_vars

\* the results are revealed, and the owner's startVoting() and endVoting()
\* are rejected
C10_Witness ==
  /\ votingInfo.state = ResultsRevealed
  /\ resultsDecrypted
  /\ startVotingRevert(owner) = "Voting already started"
  /\ endVotingRevert(owner) = "Voting not active"

\* C11: decryption happens only after the voting ended: before a
\* successful requestResults() resultsDecrypted is false, no decryption
\* request is pending and getResults() reverts with 'Results not yet
\* decrypted'; once resultsDecrypted is true, requestResults() has
\* succeeded and no vote() is accepted any more.
C11_DecryptOnlyAfterRequest ==
  deployed =>
    /\ ~votingInfo.resultsRequested =>
         /\ ~resultsDecrypted
         /\ pendingRequests = {}
         /\ getResultsRevert = "Results not yet decrypted"
    /\ (resultsDecrypted \/ pendingRequests # {}) =>
         /\ votingInfo.resultsRequested
         /\ \A a \in Users, v \in VoteValues : voteRevert(a, v) # OK

\* the results were decrypted for a voting that was ended before its end
\* time, with an authorized address that has not voted
C11_Witness ==
  /\ resultsDecrypted
  /\ now <= votingInfo.endTime
  /\ votingInfo.totalVoters >= 1
  /\ \E a \in Users : authorizedVoters[a] /\ ~hasVoted[a]

\* the rest of the voting's storage, beside votingInfo
BesideVotingInfo ==
  <<owner, encryptedVoteCounts, hasVoted, authorizedVoters, decryptedResults,
    resultsDecrypted, pendingRequests, ballots, emitted>>

\* C12: a voting created with startTime > block.timestamp starts in stored
\* state NotStarted, one created with startTime <= block.timestamp starts
\* Active; both start with totalVoters = 0, resultsRequested = false,
\* resultsDecrypted = false and hasVoted false for every address; while
\* startTime is not reached the stored state and getCurrentState() are
\* NotStarted.
C12_InitialState ==
  [][/\ (~deployed /\ deployed') =>
          /\ votingInfo'.state = IF votingInfo'.startTime > now
                                 THEN NotStarted ELSE Active
          /\ votingInfo'.totalVoters = 0
          /\ ~votingInfo'.resultsRequested
          /\ ~resultsDecrypted'
          /\ \A a \in Addresses : ~hasVoted'[a]
     /\ (deployed /\ now < votingInfo.startTime) =>
          /\ votingInfo.state = NotStarted
          /\ getCurrentState = NotStarted]_vars

\* a voting whose start time is not reached, with a voter the owner
\* authorized after the creation
C12_Witness ==
  /\ deployed
  /\ now < votingInfo.startTime
  /\ getCurrentState = NotStarted
  /\ \E a \in Users \ {owner} : authorizedVoters[a]

\* C13: startVoting() by the owner reverts with 'Start time not reached'
\* while block.timestamp < startTime and with 'Voting already started'
\* when the stored state is not NotStarted; otherwise it succeeds, and the
\* step from NotStarted to Active changes nothing but the stored state.
C13_StartVoting ==
  [][deployed =>
       /\ now < votingInfo.startTime =>
            startVotingRevert(owner) = "Start time not reached"
       /\ votingInfo.state # NotStarted =>
            startVotingRevert(owner) = "Voting already started"
       /\ (votingInfo.state = NotStarted /\ now >= votingInfo.startTime) =>
            startVotingRevert(owner) = OK
       /\ (votingInfo.state = NotStarted /\ votingInfo'.state = Active) =>
            /\ now >= votingInfo.startTime
            /\ votingInfo' = [votingInfo EXCEPT !.state = Active]
            /\ UNCHANGED <<now, BesideVotingInfo, factoryVars>>]_vars

\* a voting created through the factory before its start time is Active:
\* startVoting() has been called
C13_Witness ==
  /\ deployed
  /\ votingContracts # <<>>
  /\ votingContracts[1].createdAt < votingInfo.startTime
  /\ votingInfo.state = Active
  /\ startVotingRevert(owner) = "Voting already started"

\* C14: endVoting() by the owner succeeds exactly when the stored state is
\* Active, whatever the time, and sets the state to Ended; in any other
\* state it reverts with 'Voting not active'.
C14_EndVoting ==
  [][deployed =>
       /\ votingInfo.state = Active => endVotingRevert(owner) = OK
       /\ votingInfo.state # Active =>
            endVotingRevert(owner) = "Voting not active"
       /\ endVoting(owner) =>
            /\ votingInfo.state = Active
            /\ votingInfo' = [votingInfo EXCEPT !.state = Ended]
       /\ (votingInfo.state # Active /\ votingInfo'.state = Ended) =>
            /\ votingInfo.state = Ended \/ votingInfo'.resultsRequested
            /\ ~endVoting(owner)]_vars

\* the voting was ended by hand before its end time, after a vote
C14_Witness ==
  /\ votingInfo.state = Ended
  /\ now < votingInfo.endTime
  /\ ~votingInfo.resultsRequested
  /\ votingInfo.totalVoters >= 1
  /\ endVotingRevert(owner) = "Voting not active"

\* C15 (as stated): isVotingActive() is true exactly when the stored state
\* is Active and startTime <= block.timestamp <= endTime, that is exactly
\* when the time/state gate of vote() passes; it is false before
\* startVoting() (so in particular right after the creation), true after
\* startVoting() inside the window, false once block.timestamp > endTime
\* or after endVoting().
C15_FalseBeforeStartVoting ==
  [][/\ deployed =>
          /\ isVotingActive <=> InVotingWindow
          /\ \A a \in Users, v \in VoteValues :
               isVotingActive <=> voteRevert(a, v) # "Voting is not active"
          /\ votingInfo.state = NotStarted => ~isVotingActive
          /\ (now > votingInfo.endTime \/ votingInfo.state = Ended) =>
               ~isVotingActive
          /\ (/\ votingInfo.state = NotStarted
              /\ votingInfo'.state = Active
              /\ now <= votingInfo.endTime) => isVotingActive'
     /\ (~deployed /\ deployed') => ~isVotingActive']_vars

\* C15 (amended): isVotingActive() is true exactly when the stored state
\* is Active and startTime <= block.timestamp <= endTime, that is exactly
\* when the time/state gate of vote() passes; it is false while the
\* stored state is NotStarted, true right after startVoting() inside the
\* window, false once block.timestamp > endTime or the state is Ended; a
\* voting created with startTime <= block.timestamp is active at once,
\* before any startVoting().
C15_IsVotingActive ==
  [][/\ deployed =>
          /\ isVotingActive <=> InVotingWindow
          /\ \A a \in Users, v \in VoteValues :
               isVotingActive <=> voteRevert(a, v) # "Voting is not active"
          /\ votingInfo.state = NotStarted => ~isVotingActive
          /\ (now > votingInfo.endTime \/ votingInfo.state = Ended) =>
               ~isVotingActive
          /\ (/\ votingInfo.state = NotStarted
              /\ votingInfo'.state = Active
              /\ now <= votingInfo.endTime) => isVotingActive'
     /\ (~deployed /\ deployed') =>
          (isVotingActive' <=> votingInfo'.startTime <= now)]_vars

\* the stored state is still Active after the end time: isVotingActive()
\* is false
C15_Witness ==
  /\ deployed
  /\ votingInfo.state = Active
  /\ now > votingInfo.endTime
  /\ ~isVotingActive

\* C16: for the owner, authorizeVoter(v) with v # 0 makes
\* authorizedVoters[v] true, revokeVoter(v) makes it false and
\* authorizeVoter(0) reverts with 'Invalid address'; each changes the
\* authorization of no other address, and no step that changes an
\* authorization changes hasVoted, totalVoters, the vote counts or the
\* state (a vote cast before a revocation stays counted).
C16_AuthorizationFrame ==
  [][deployed =>
       /\ authorizeVoterRevert(owner, ZeroAddress) = "Invalid address"
       /\ \A v \in VoterArgs :
            /\ v # ZeroAddress => authorizeVoterRevert(owner, v) = OK
            /\ revokeVoterRevert(owner, v) = OK
       /\ authorizedVoters' # authorizedVoters =>
            /\ UNCHANGED <<Tallies, votingInfo>>
            /\ \A v \in VoterArgs :
                 /\ authorizeVoter(owner, v) =>
                      /\ v # ZeroAddress
                      /\ authorizedVoters'[v]
                      /\ \A b \in Addresses \ {v} :
                           authorizedVoters'[b] = authorizedVoters[b]
                 /\ revokeVoter(owner, v) =>
                      /\ ~authorizedVoters'[v]
                      /\ \A b \in Addresses \ {v} :
                           authorizedVoters'[b] = authorizedVoters[b]]_vars

\* an address voted and was revoked afterwards: its vote is still counted
C16_Witness ==
  \E a \in Users :
    /\ hasVoted[a]
    /\ ~authorizedVoters[a]
    /\ ballots[a] # NoBallot
    /\ encryptedVoteCounts[ballots[a]] >= 1
    /\ votingInfo.totalVoters >= 1

\* the lists with the zero address at some position, and the others
ListsWithZero ==
  {l \in AllVoterLists : \E i \in 1..Len(l) : l[i] = ZeroAddress}

ListsWithoutZero == AllVoterLists \ ListsWithZero

\* C17: authorizeVoters(list) by the owner authorizes every address of
\* the list and no other; a list with the zero address at any position
\* reverts as a whole with 'Invalid address', so that no entry of it is
\* authorized by the call.
C17_AuthorizeVotersAtomic ==
  (deployed /\ owner \in Users) =>
    /\ \A l \in ListsWithZero :
         authorizeVotersRevert(owner, l) = "Invalid address"
    /\ \A l \in ListsWithoutZero :
         /\ authorizeVotersRevert(owner, l) = OK
         /\ authorizeVotersStore(l) =
              [a \in Addresses |->
                 authorizedVoters[a] \/ a \in {l[i] : i \in 1..Len(l)}]

\* every account is authorized in a voting whose owner was not authorized
\* at creation, and a list with the zero address after a valid entry is
\* rejected
C17_Witness ==
  /\ deployed
  /\ votingContracts # <<>>
  /\ \A a \in Users : authorizedVoters[a]
  /\ authorizeVotersRevert(owner, <<NumUsers, ZeroAddress>>) = "Invalid address"

\* C18: each successful VotingFactory.createVoting by C appends exactly one
\* record with contractAddress = the new voting's address (an address not
\* registered before, which the call returns), creator = C and isActive =
\* true, sets isValidVotingContract for that address only, appends the
\* record's index to creatorToVotings[C] only; getTotalVotingsCount()
\* grows by exactly 1 and no stored record changes.
C18_CreateVotingRecords ==
  [][getTotalVotingsCount' # getTotalVotingsCount
       \/ isValidVotingContract' # isValidVotingContract
       \/ creatorToVotings' # creatorToVotings =>
     /\ getTotalVotingsCount' = getTotalVotingsCount + 1
     /\ SubSeq(votingContracts', 1, Len(votingContracts)) = votingContracts
     /\ LET record == votingContracts'[Len(votingContracts) + 1]
        IN  /\ record.contractAddress = newVotingAddress
            /\ ~isValidVotingContract[record.contractAddress]
            /\ \A i \in 1..Len(votingContracts) :
                 votingContracts[i].contractAddress # record.contractAddress
            /\ record.isActive
            /\ isValidVotingContract' =
                 [isValidVotingContract EXCEPT ![record.contractAddress] = TRUE]
            /\ creatorToVotings' =
                 [creatorToVotings EXCEPT
                    ![record.creator] = Append(@, Len(votingContracts))]
            /\ \E t \in Titles, n \in OptionCounts, s \in Times, e \in Times :
                 createVoting(record.creator, t, n, s, e)
            /\ votingContracts'[creatorToVotings'[record.creator][
                   Len(creatorToVotings'[record.creator])] + 1] = record]_vars

\* the factory holds the largest number of votings tried, by two creators,
\* the first of them deactivated
C18_Witness ==
  /\ Len(votingContracts) = MaxVotings
  /\ votingContracts[1].creator # votingContracts[2].creator
  /\ ~votingContracts[1].isActive
  /\ isValidVotingContract[votingContracts[2].contractAddress]

\* C19: a VotingFactory.createVoting that reverts, by the factory's own
\* checks (empty title 'Title cannot be empty', fewer than 2 options,
\* startTime >= endTime) or inside the constructor (more than 10 options,
\* endTime <= block.timestamp 'End time must be in future'), leaves the
\* factory unchanged: no record, flag or index is added.
C19_CreateVotingAtomic ==
  [][/\ \A t \in Titles, n \in OptionCounts, s \in Times, e \in Times :
          LET reason == createVotingRevert(t, n, s, e)
          IN  /\ t = "" => reason = "Title cannot be empty"
              /\ (t # "" /\ n < 2) => reason = "At least 2 options required"
              /\ (t # "" /\ n >= 2 /\ s >= e) => reason = "Invalid time range"
              /\ (t # "" /\ n > 10 /\ s < e) =>
                   reason = "Maximum 10 options allowed"
              /\ (t # "" /\ n >= 2 /\ n <= 10 /\ s < e /\ e <= now) =>
                   reason = "End time must be in future"
     /\ votingContracts' # votingContracts =>
          /\ Len(votingContracts') = Len(votingContracts)
             \/ Len(votingContracts') = Len(votingContracts) + 1
          /\ Len(votingContracts') = Len(votingContracts) =>
               UNCHANGED <<creatorToVotings, isValidVotingContract>>
     /\ Len(votingContracts') # Len(votingContracts) =>
          \A c \in Users, t \in Titles, n \in OptionCounts,
             s \in Times, e \in Times :
             (t = "" \/ n < 2 \/ n > 10 \/ s >= e \/ e <= now) =>
                ~createVoting(c, t, n, s, e)
     /\ (~deployed /\ deployed') =>
          /\ votingInfo'.title # ""
          /\ 2 <= votingInfo'.options /\ votingInfo'.options <= 10
          /\ votingInfo'.startTime < votingInfo'.endTime
          /\ votingInfo'.endTime > now]_vars

\* the factory holds a record and the block time has advanced, so that a
\* creation with a past end time is rejected by the constructor
C19_Witness ==
  /\ Len(votingContracts) >= 1
  /\ Len(votingContracts) < MaxVotings
  /\ now >= 1
  /\ createVotingRevert("T", MinOptions, 0, 1) = "End time must be in future"

\* a record of the factory holds that address
Registered(votingAddress) ==
  \E i \in 1..Len(votingContracts) :
    votingContracts[i].contractAddress = votingAddress

\* the record of a registered address
RecordOf(votingAddress) ==
  votingContracts[CHOOSE i \in 1..Len(votingContracts) :
                    votingContracts[i].contractAddress = votingAddress]

\* C20: VotingFactory.deactivateVoting(a) succeeds only when a is a
\* registered voting address, the caller is the record's creator or the
\* factory owner, and the record is active; it then sets only that
\* record's isActive to false.  Otherwise it reverts with 'Invalid voting
\* contract', 'Not authorized to deactivate' or 'Voting already
\* deactivated' (the first of these conditions that fails).
C20_DeactivateVoting ==
  [][\A c \in Users, a \in FactoryArgs :
       /\ deactivateVotingRevert(c, a) =
            IF ~Registered(a) THEN "Invalid voting contract"
            ELSE IF ~(RecordOf(a).creator = c \/ factoryOwner = c)
                 THEN "Not authorized to deactivate"
            ELSE IF ~RecordOf(a).isActive THEN "Voting already deactivated"
            ELSE OK
       /\ deactivateVoting(c, a) =>
            /\ Registered(a)
            /\ RecordOf(a).creator = c \/ factoryOwner = c
            /\ RecordOf(a).isActive
            /\ Len(votingContracts') = Len(votingContracts)
            /\ \A i \in 1..Len(votingContracts) :
                 votingContracts'[i] =
                   IF votingContracts[i].contractAddress = a
                   THEN [votingContracts[i] EXCEPT !.isActive = FALSE]
                   ELSE votingContracts[i]
            /\ UNCHANGED <<creatorToVotings, isValidVotingContract,
                           factoryOwner, votingVars>>]_vars

\* a deactivated record that its creator cannot deactivate again, and an
\* active record of the factory owner that another account cannot
\* deactivate
C20_Witness ==
  /\ \E i \in 1..Len(votingContracts) :
       /\ ~votingContracts[i].isActive
       /\ deactivateVotingRevert(votingContracts[i].creator,
                                 votingContracts[i].contractAddress)
            = "Voting already deactivated"
  /\ \E i \in 1..Len(votingContracts), c \in Users :
       /\ votingContracts[i].isActive
       /\ votingContracts[i].creator = factoryOwner
       /\ deactivateVotingRevert(c, votingContracts[i].contractAddress)
            = "Not authorized to deactivate"

\* the sum of the plaintext vote counts of the options 0..n-1
RECURSIVE SumCounts(_)
SumCounts(n) ==
  IF n = 0 THEN 0 ELSE encryptedVoteCounts[n - 1] + SumCounts(n - 1)

\* C21: totalVoters equals the number of addresses with hasVoted true and
\* the sum of the plaintext vote counts; a successful vote() for option k
\* adds exactly 1 to the count of k, leaves the other counts unchanged and
\* adds exactly 1 to totalVoters.
C21_TotalVotersIsSum ==
  [][deployed =>
       /\ votingInfo.totalVoters = Cardinality({a \in Addresses : hasVoted[a]})
       /\ votingInfo.totalVoters = SumCounts(votingInfo.options)
       /\ \A i \in OptionIndices : encryptedVoteCounts[i] = VotesFor(i)
       /\ (\/ votingInfo'.totalVoters # votingInfo.totalVoters
           \/ encryptedVoteCounts' # encryptedVoteCounts
           \/ hasVoted' # hasVoted) =>
            \E a \in Users, k \in 0..(votingInfo.options - 1) :
              /\ vote(a, k)
              /\ encryptedVoteCounts' =
                   [encryptedVoteCounts EXCEPT ![k] = @ + 1]
              /\ votingInfo'.totalVoters = votingInfo.totalVoters + 1]_vars

\* every account voted, not all for the same option
C21_Witness ==
  /\ votingInfo.totalVoters = NumUsers
  /\ \A a \in Users : hasVoted[a]
  /\ \E a \in Users, b \in Users : ballots[a] # ballots[b]

\* C22: vote() by an authorized address that has not voted, during the
\* active window, with a value outside 0..options.length-1 reverts with
\* 'Invalid vote option'; the address can still cast a valid vote: vote()
\* with any value inside the range would be accepted in the same state.
C22_InvalidVoteOption ==
  (deployed /\ InVotingWindow) =>
    \A a \in Users :
      (authorizedVoters[a] /\ ~hasVoted[a]) =>
        \A v \in VoteValues :
          IF v \in 0..(votingInfo.options - 1)
          THEN voteRevert(a, v) = OK
          ELSE voteRevert(a, v) = "Invalid vote option"

\* an authorized address that has not voted is rejected with an invalid
\* value, after another address voted
C22_Witness ==
  /\ InVotingWindow
  /\ votingInfo.totalVoters >= 1
  /\ \E a \in Users :
       /\ authorizedVoters[a] /\ ~hasVoted[a]
       /\ voteRevert(a, votingInfo.options) = "Invalid vote option"
       /\ voteRevert(a, votingInfo.options - 1) = OK

\* C23: once the stored state is Ended or ResultsRevealed it stays so, no
\* vote() is accepted, and totalVoters, hasVoted and the vote counts
\* never change again.
C23_TalliesFinal ==
  [][(deployed /\ votingInfo.state \in {Ended, ResultsRevealed}) =>
       /\ votingInfo'.state \in {Ended, ResultsRevealed}
       /\ \A a \in Users, v \in VoteValues : voteRevert(a, v) # OK
       /\ UNCHANGED Tallies]_vars

\* the results were requested for a voting ended before its end time, with
\* an authorized address that has not voted
C23_Witness ==
  /\ votingInfo.state = Ended
  /\ votingInfo.resultsRequested
  /\ now <= votingInfo.endTime
  /\ now >= votingInfo.startTime
  /\ votingInfo.totalVoters >= 1
  /\ \E a \in Users : authorizedVoters[a] /\ ~hasVoted[a]

\* the results are revealed
Revealed == votingInfo.state = ResultsRevealed /\ resultsDecrypted

\* C24: when requestResults() has succeeded and the gateway delivers the
\* callbacks of the requests, the stored state eventually is
\* ResultsRevealed with resultsDecrypted true, and both stay so forever.
C24_EventuallyRevealed ==
  /\ (deployed /\ votingInfo.resultsRequested) ~> Revealed
  /\ [][Revealed => Revealed']_vars

\* every request was answered for a voting with votes
C24_Witness ==
  /\ Revealed
  /\ votingInfo.resultsRequested
  /\ pendingRequests = {}
  /\ votingInfo.totalVoters >= 1

\* C25: once block.timestamp > endTime, getCurrentState() returns Ended or
\* ResultsRevealed, whether or not startVoting() was called.
C25_ExpiredNeverActive ==
  (deployed /\ now > votingInfo.endTime) =>
    getCurrentState \in {Ended, ResultsRevealed}

\* C26: getCurrentState() returns Active if and only if isVotingActive()
\* returns true.
C26_ViewsAgree ==
  deployed => (getCurrentState = Active <=> isVotingActive)

\* C27: every change of the stored state to Ended emits VotingEnded, and a
\* VotingEnded event has been emitted before any ResultsRevealed event.
C27_VotingEndedEvent ==
  [][deployed =>
       /\ (votingInfo.state # Ended /\ votingInfo'.state = Ended) =>
            ("VotingEnded" \in emitted' /\ "VotingEnded" \notin emitted)
       /\ "ResultsRevealed" \in emitted' => "VotingEnded" \in emitted]_vars

\* the number of times index i stands in the list of creator c
TimesListed(c, i) ==
  Cardinality({k \in 1..Len(creatorToVotings[c]) : creatorToVotings[c][k] = i})

\* the records of a creator, in the order of votingContracts
RecordsOf(c) == SelectSeq(votingContracts, LAMBDA r : r.creator = c)

\* C28: isValidVotingContract[a] is true exactly when a record has
\* contractAddress a; the addresses of the records are pairwise distinct;
\* the index of every record stands exactly once in creatorToVotings, in
\* the list of its creator; records are never removed or reordered, and
\* getVotingsByCreator(c) returns the records created by c in creation
\* order.
C28_FactoryRecords ==
  [][/\ \A a \in AllAddresses : isValidVotingContract[a] <=> Registered(a)
     /\ \A i \in 1..Len(votingContracts), j \in 1..Len(votingContracts) :
          votingContracts[i].contractAddress =
            votingContracts[j].contractAddress => i = j
     /\ \A c \in Addresses :
          /\ \A k \in 1..Len(creatorToVotings[c]) :
               creatorToVotings[c][k] \in 0..(Len(votingContracts) - 1)
          /\ \A i \in 0..(Len(votingContracts) - 1) :
               TimesListed(c, i) =
                 IF votingContracts[i + 1].creator = c THEN 1 ELSE 0
          /\ getVotingsByCreator(c) = RecordsOf(c)
     /\ Len(votingContracts') >= Len(votingContracts)
     /\ \A i \in 1..Len(votingContracts) :
          votingContracts'[i] =
            [votingContracts[i] EXCEPT !.isActive = votingContracts'[i].isActive]
    ]_vars

\* two accounts created records, one of them after the other's
C28_Witness ==
  /\ Len(votingContracts) = MaxVotings
  /\ votingContracts[1].creator # votingContracts[MaxVotings].creator
  /\ Len(getVotingsByCreator(votingContracts[MaxVotings].creator)) >= 1
  /\ getVotingsByCreator(votingContracts[MaxVotings].creator)
       # votingContracts

\* C29: getActiveVotings() returns the records whose isActive flag is
\* true, in creation order, and its length is getActiveVotingsCount(),
\* which is at most getTotalVotingsCount(); a record that is not active
\* becomes active only by emergencyUpdateVotingStatus(a, true) called by
\* the factory owner.
C29_ActiveVotings ==
  [][/\ getActiveVotings = SelectSeq(votingContracts, LAMBDA r : r.isActive)
     /\ Len(getActiveVotings) = getActiveVotingsCount
     /\ getActiveVotingsCount <= getTotalVotingsCount
     /\ \A i \in 1..Len(votingContracts) :
          (~votingContracts[i].isActive /\ votingContracts'[i].isActive) =>
            emergencyUpdateVotingStatus(factoryOwner,
              votingContracts[i].contractAddress, TRUE)]_vars

\* the first record is not active and a later one is
C29_Witness ==
  /\ Len(votingContracts) >= 2
  /\ ~votingContracts[1].isActive
  /\ getActiveVotingsCount >= 1
  /\ getActiveVotingsCount < getTotalVotingsCount
  /\ getActiveVotings[1] = votingContracts[Len(votingContracts)]

\* C30: getPaginatedVotings(offset, limit) reverts with 'Limit must be
\* greater than 0' when limit = 0 and with 'Offset out of bounds' when
\* offset >= total; for every other pair, also when offset + limit exceeds
\* the largest uint256, it returns the min(limit, total - offset) records
\* from index offset on, in order, with the total count.
C30_PaginatedVotings ==
  \A offset \in UintValues, limit \in UintValues :
    IF limit = 0
    THEN getPaginatedVotingsRevert(offset, limit)
           = "Limit must be greater than 0"
    ELSE IF offset >= Len(votingContracts)
    THEN getPaginatedVotingsRevert(offset, limit) = "Offset out of bounds"
    ELSE /\ getPaginatedVotingsRevert(offset, limit) = OK
         /\ getPaginatedVotings(offset, limit) =
              <<SubSeq(votingContracts, offset + 1,
                       offset + (IF limit < Len(votingContracts) - offset
                                 THEN limit
                                 ELSE Len(votingContracts) - offset)),
                Len(votingContracts)>>

\* C31: deactivateVoting and emergencyUpdateVotingStatus change only the
\* isActive field of one record of the factory and leave the PrivateVoting
\* contract untouched (state, authorizations, tallies, results); vote,
\* endVoting, requestResults, callbackResults and the other operations of
\* a created PrivateVoting change no record of the factory.
C31_FlagAndLifecycleIndependent ==
  [][/\ (<<votingContracts, creatorToVotings, isValidVotingContract>>' #
           <<votingContracts, creatorToVotings, isValidVotingContract>>
         /\ deployed) =>
          /\ \E c \in Users, a \in FactoryArgs, isActive \in BOOLEAN :
               \/ deactivateVoting(c, a)
               \/ emergencyUpdateVotingStatus(c, a, isActive)
          /\ Len(votingContracts') = Len(votingContracts)
          /\ Cardinality({i \in 1..Len(votingContracts) :
                            votingContracts'[i] # votingContracts[i]}) = 1
          /\ \A i \in 1..Len(votingContracts) :
               votingContracts'[i] =
                 [votingContracts[i] EXCEPT
                    !.isActive = votingContracts'[i].isActive]
          /\ UNCHANGED <<creatorToVotings, isValidVotingContract,
                         factoryOwner>>
          /\ UNCHANGED <<votingVars, pendingRequests, ballots, emitted>>
     /\ (deployed /\ <<votingVars, pendingRequests, ballots>>' #
                      <<votingVars, pendingRequests, ballots>>) =>
          UNCHANGED factoryVars]_vars

\* the record of a voting with votes and revealed results is not active
C31_Witness ==
  /\ Len(votingContracts) = 1
  /\ ~votingContracts[1].isActive
  /\ votingInfo.totalVoters >= 1
  /\ Revealed

\* C32: in every state of FHEVMProvider where no initializeFHEVM() call is
\* in flight, instance is non-null only if wallet.isConnected is true and
\* wallet.chainId equals FHEVM_CONFIG.chainId.
C32_InstanceOnlyOnConfiguredChain ==
  ("FHEVMProvider" \in mounted /\ fhevm.inFlight = 0) =>
    (fhevm.instance =>
       wallet.isConnected /\ wallet.chainId = ConfiguredChainId)

\* C33: whenever wallet.isConnected is false the fields address, chainId
\* and balance of the WalletState are all null, and whenever it is true
\* they are all non-null.
C33_WalletStateConsistent ==
  IF wallet.isConnected
  THEN wallet.address # Null /\ wallet.chainId # Null /\ wallet.balance # Null
  ELSE wallet.address = Null /\ wallet.chainId = Null /\ wallet.balance = Null

\* C34: when the last balance fetch in flight resolves for a connected
\* wallet, wallet.balance is the balance of the current address: the
\* result of a fetch started for an earlier address does not end up as
\* the balance displayed for the current address.
C34_BalanceOfCurrentAddress ==
  [][((\E address \in Accounts : updateBalanceResolved(address))
        /\ balanceFetches' = EmptyBag
        /\ wallet'.isConnected) =>
       wallet'.balance = getBalance(wallet'.address)]_vars

\* C35: a connect() that resolves leaves wallet.isConnected true; a
\* connect() that rejects has shown an error toast and leaves the wallet as
\* before the call: a rejection before the account is stored changes
\* nothing, and after a rejection of the network switch the wallet is not
\* marked connected (the Connect button is offered only while the wallet
\* is not connected).
C35_ConnectResolvesOrRestores ==
  [][/\ (\/ switchNetworkResolved
         \/ \E address \in Accounts :
              connectAccepted(address, ConfiguredChainId)) =>
          wallet'.isConnected
     /\ (\/ ~config.ethereum /\ handleConnectWallet
         \/ \E error \in WalletErrors : connectRequestRejected(error)) =>
          /\ wallet' = wallet
          /\ toasts' # <<>>
     /\ (\E error \in WalletErrors : switchNetworkRejected(error)) =>
          /\ ~wallet'.isConnected
          /\ toasts' # <<>>]_vars

\* C36: when the last pending loadVotings() call resolves while the
\* wallet is connected, the displayed list is the response to the query
\* of the selected filter ('active' -> getActiveVotings, 'my-votings' ->
\* getVotingsByCreator, otherwise getAllVotings) and loading is false.
C36_ListOfCurrentFilter ==
  [][((\E query \in BagToSet(home.inFlight) : loadVotingsResolved(query))
        /\ home'.inFlight = EmptyBag
        /\ wallet'.isConnected) =>
       /\ home'.votings[1] = queryOf(home'.filter, wallet'.address)[1]
       /\ ~home'.loading]_vars
====
